---- MODULE Spec2Model ----
(***************************************************************************)
(* A model of pdfrename: the pattern script (rename_pdfs.py) and the       *)
(* service script (renamepdf.py).  Strings are TLA+ strings; a character   *)
(* is a string of length one, read with SubSeq.  A string literal can hold *)
(* the code points U+0000 to U+00FF (but not the backtick), so the texts   *)
(* of the model are Latin-1 texts, and each character class below is       *)
(* Python's class for str patterns and str methods cut down to that range. *)
(* Characters beyond U+00FF are outside the model.                         *)
(***************************************************************************)
EXTENDS Integers, Sequences, FiniteSets, TLC

VARIABLES
    \* the scripts (rename_pdfs.py, renamepdf.py)
    script,         \* which script runs
    client,         \* renamepdf.CLIENT is not None
    dirs,           \* the directories that exist
    fs,             \* the files: path <<directory, name>> -> document
    pc,             \* position in __main__ and in the function it has called
    dry_run,        \* the dry_run argument of the current run
    listing,        \* what os.listdir returned to the current loop
    idx,            \* position of the current loop in listing
    pdf_files_found,
    renamed_count,
    skipped_count,
    moved_count,
    config_errors,  \* how often the current run printed the missing-key error
    log,            \* the current run's report: one entry per PDF
    moves,          \* move_pdfs_to_folder's moves, one entry per PDF
    preview,        \* the finished dry run that preceded the live run, or None
    fs_start,       \* fs when the current run or move began
    \* the driver of generate_new_name_from_content
    gen_text,       \* text_content
    gen_date,       \* found_date
    gen_name,       \* the returned name
    gen_pc,
    \* the driver of sanitize_filename
    sp_input,       \* the argument `name`
    sp_once,        \* sanitize_filename(name)
    sp_twice,       \* sanitize_filename(sanitize_filename(name))
    sp_pc

runVars == <<script, client, dirs, fs, pc, dry_run, listing, idx, pdf_files_found,
             renamed_count, skipped_count, moved_count, config_errors, log, moves,
             preview, fs_start>>

genVars == <<gen_text, gen_date, gen_name, gen_pc>>

sanVars == <<sp_input, sp_once, sp_twice, sp_pc>>

vars == <<runVars, genVars, sanVars>>

(***************************************************************************)
(* Characters and strings                                                  *)
(***************************************************************************)
Ch(s, i) == SubSeq(s, i, i)

\* \d: up to U+00FF the only decimal digits are the ASCII ones
Digits == {"0", "1", "2", "3", "4", "5", "6", "7", "8", "9"}

\* \s and str.strip(): the characters with str.isspace() up to U+00FF, which are space,
\* \t, \n, \r, \f, and U+000B, U+001C, U+001D, U+001E, U+001F, U+0085, U+00A0
Whitespace == {" ", "\t", "\n", "\r", "\f", "", "", "", "", "", "", " "}

\* a string of n copies of the character c
RECURSIVE Repeat(_, _)
Repeat(c, n) ==
    IF n <= 0 THEN ""
    ELSE IF n = 1 THEN c
    ELSE Repeat(c, n \div 2) \o Repeat(c, n - (n \div 2))

\* the concatenation of Piece(lo), ..., Piece(hi), built by halving
RECURSIVE Concat(_, _, _)
Concat(Piece(_), lo, hi) ==
    IF lo > hi THEN ""
    ELSE IF lo = hi THEN Piece(lo)
    ELSE LET mid == (lo + hi) \div 2
         IN  Concat(Piece, lo, mid) \o Concat(Piece, mid + 1, hi)

\* the strings of length at most n over the alphabet A
RECURSIVE StringsUpTo(_, _)
StringsUpTo(A, n) ==
    IF n = 0 THEN {""}
    ELSE LET shorter == StringsUpTo(A, n - 1)
         IN  shorter \cup {s \o c : s \in shorter, c \in A}

\* str.strip(chars): drop the leading and trailing characters that are in chars
StripChars(s, chars) ==
    LET keep == {i \in 1..Len(s) : Ch(s, i) \notin chars}
    IN  IF keep = {} THEN ""
        ELSE LET lo == CHOOSE i \in keep : \A j \in keep : i <= j
                 hi == CHOOSE i \in keep : \A j \in keep : j <= i
             IN  SubSeq(s, lo, hi)

(***************************************************************************)
(* sanitize_filename                                                       *)
(***************************************************************************)
\* the length cap of sanitize_filename
MaxNameLen == 200

\* the character class [\\/:*?"<>|]
InvalidChars == {"\\", "/", ":", "*", "?", "\"", "<", ">", "|"}

\* re.sub(r'[\\/:*?"<>|]', '_', name)
ReplaceInvalid(s) ==
    LET Piece(i) == IF Ch(s, i) \in InvalidChars THEN "_" ELSE Ch(s, i)
    IN  Concat(Piece, 1, Len(s))

\* re.sub(r'__+', '_', s): every maximal run of two or more underscores becomes one
CollapseUnderscores(s) ==
    LET Piece(i) == IF Ch(s, i) = "_" /\ i > 1 /\ Ch(s, i - 1) = "_" THEN "" ELSE Ch(s, i)
    IN  Concat(Piece, 1, Len(s))

\* sanitized[:200] when len(sanitized) > 200
Truncate(s) == IF Len(s) > MaxNameLen THEN SubSeq(s, 1, MaxNameLen) ELSE s

sanitize_filename(name) ==
    Truncate(StripChars(CollapseUnderscores(ReplaceInvalid(name)), {" ", "_"}))

(***************************************************************************)
(* Optional values (Python's None) and more string helpers                 *)
(***************************************************************************)
None == <<>>

Some(x) == <<x>>

IsSome(o) == o # None

Val(o) == o[1]

\* F applied to the value of x: x is evaluated once, like a local variable assigned once
With(x, F(_)) == CHOOSE r \in {F(v) : v \in {x}} : TRUE

LowerLetters == "abcdefghijklmnopqrstuvwxyz"

UpperLetters == "ABCDEFGHIJKLMNOPQRSTUVWXYZ"

\* the upper-case letters from U+0080 to U+00FF, and str.lower() of each
UpperLatin == "ÀÁÂÃÄÅÆÇÈÉÊËÌÍÎÏÐÑÒÓÔÕÖØÙÚÛÜÝÞ"

LowerLatin == "àáâãäåæçèéêëìíîïðñòóôõöøùúûüýþ"

\* the characters from U+0080 to U+00FF with str.isalnum()
LatinWordChars == "ª²³µ¹º¼½¾ÀÁÂÃÄÅÆÇÈÉÊËÌÍÎÏÐÑÒÓÔÕÖØÙÚÛÜÝÞßàáâãäåæçèéêëìíîïðñòóôõöøùúûüýþÿ"

\* [A-Za-z]
Letters == {Ch(LowerLetters, i) : i \in 1..26} \cup {Ch(UpperLetters, i) : i \in 1..26}

\* \w of the re module for a str pattern: str.isalnum() or the underscore
WordChars ==
    Letters \cup Digits \cup {"_"} \cup {Ch(LatinWordChars, i) : i \in 1..Len(LatinWordChars)}

\* the class [A-Za-z0-9-], also under re.IGNORECASE: up to U+00FF no other character
\* folds to an ASCII letter
IdentChars == Letters \cup Digits \cup {"-"}

\* the class [-./]
DateSeps == {"-", ".", "/"}

\* the character at position i, or "" outside the string
CharAt(s, i) == IF i \in 1..Len(s) THEN SubSeq(s, i, i) ELSE ""

\* str.lower() of one character
LowerChar(c) ==
    IF \E i \in 1..26 : Ch(UpperLetters, i) = c
    THEN Ch(LowerLetters, CHOOSE i \in 1..26 : Ch(UpperLetters, i) = c)
    ELSE IF \E i \in 1..Len(UpperLatin) : Ch(UpperLatin, i) = c
    THEN Ch(LowerLatin, CHOOSE i \in 1..Len(UpperLatin) : Ch(UpperLatin, i) = c)
    ELSE c

\* str.lower()
Lower(s) == LET Piece(i) == LowerChar(Ch(s, i)) IN Concat(Piece, 1, Len(s))

\* str.endswith(suffix)
EndsWith(s, suffix) ==
    Len(s) >= Len(suffix) /\ SubSeq(s, Len(s) - Len(suffix) + 1, Len(s)) = suffix

\* whether the literal lit stands at position i of s
LitAt(s, i, lit) ==
    i >= 1 /\ i + Len(lit) - 1 <= Len(s) /\ SubSeq(s, i, i + Len(lit) - 1) = lit

\* the position just after the longest run of characters of class that starts at i
RunEnd(s, i, class) ==
    CHOOSE j \in i..(Len(s) + 1) :
        /\ \A k \in i..(j - 1) : Ch(s, k) \in class
        /\ CharAt(s, j) \notin class

\* \b just before position i: exactly one of the characters around it is a word character
BoundaryAt(s, i) == (CharAt(s, i - 1) \in WordChars) # (CharAt(s, i) \in WordChars)

\* str.replace(old, new) for a one-character old
ReplaceChar(s, old, new) ==
    LET Piece(i) == IF Ch(s, i) = old THEN new ELSE Ch(s, i)
    IN  Concat(Piece, 1, Len(s))

\* str.split(sep)[0] for a one-character sep
FirstField(s, sep) ==
    LET at == {i \in 1..Len(s) : Ch(s, i) = sep}
    IN  IF at = {} THEN s
        ELSE SubSeq(s, 1, (CHOOSE i \in at : \A j \in at : i <= j) - 1)

\* str.strip()
Strip(s) == StripChars(s, Whitespace)

DigitValue(c) == CHOOSE v \in 0..9 : Ch("0123456789", v + 1) = c

\* int(s) for a string of digits
RECURSIVE StrToInt(_)
StrToInt(s) ==
    IF s = "" THEN 0
    ELSE 10 * StrToInt(SubSeq(s, 1, Len(s) - 1)) + DigitValue(Ch(s, Len(s)))

\* str(n) for n >= 0
RECURSIVE IntToStr(_)
IntToStr(n) ==
    IF n < 10 THEN Ch("0123456789", n + 1)
    ELSE IntToStr(n \div 10) \o Ch("0123456789", (n % 10) + 1)

AllDigits(s) == \A i \in 1..Len(s) : Ch(s, i) \in Digits

(***************************************************************************)
(* generate_new_name_from_content: the identifier patterns                 *)
(***************************************************************************)
\* invoice_patterns: the label alternatives in the order the regex lists them, whether
\* \s* may stand between the label and [#:]?, and the prefix of the name part
invoice_patterns ==
    << [labels |-> <<"invoice", "inv">>, lead |-> TRUE,  prefix |-> "Invoice"],
       [labels |-> <<"order", "po">>,    lead |-> TRUE,  prefix |-> "Order"],
       [labels |-> <<"ref">>,            lead |-> FALSE, prefix |-> "Ref"] >>

\* the identifier must be longer than this
MinIdentLen == 3

\* label \s* [#:]? \s* ([A-Za-z0-9-]+) tried at position p with one label (re.IGNORECASE):
\* the captured group, or None.  The greedy \s* and [#:]? leave one place where the
\* identifier can start, so backtracking finds no other match.
IdentAt(text, p, pat, a) ==
    IF ~(p + Len(pat.labels[a]) - 1 <= Len(text)
         /\ Lower(SubSeq(text, p, p + Len(pat.labels[a]) - 1)) = pat.labels[a])
    THEN None
    ELSE With(IF pat.lead THEN RunEnd(text, p + Len(pat.labels[a]), Whitespace)
              ELSE p + Len(pat.labels[a]), LAMBDA q1 :
         With(IF CharAt(text, q1) \in {"#", ":"} THEN q1 + 1 ELSE q1, LAMBDA q2 :
         With(RunEnd(text, q2, Whitespace), LAMBDA q3 :
              IF CharAt(text, q3) \in IdentChars
              THEN Some(SubSeq(text, q3, RunEnd(text, q3, IdentChars) - 1))
              ELSE None)))

\* the first label alternative, from alternative a on, that matches at position p
RECURSIVE IdentAlternatives(_, _, _, _)
IdentAlternatives(text, p, pat, a) ==
    IF a > Len(pat.labels) THEN None
    ELSE With(IdentAt(text, p, pat, a), LAMBDA g :
              IF IsSome(g) THEN g ELSE IdentAlternatives(text, p, pat, a + 1))

\* re.search(pattern, text_content, re.IGNORECASE).group(1): leftmost position, then
\* the first label alternative that matches there
IdentSearch(text, pat) ==
    With({p \in 1..Len(text) : IsSome(IdentAlternatives(text, p, pat, 1))}, LAMBDA hits :
         IF hits = {} THEN None
         ELSE IdentAlternatives(text, CHOOSE p \in hits : \A q \in hits : p <= q, pat, 1))

\* len(part) > 3 and not re.fullmatch(r'\d{4}', part)
IdentAccepted(part) == Len(part) > MinIdentLen /\ ~(Len(part) = 4 /\ AllDigits(part))

\* the loop over invoice_patterns: the first pattern whose first match is accepted
RECURSIVE IdentLoop(_, _)
IdentLoop(text, k) ==
    IF k > Len(invoice_patterns) THEN None
    ELSE With(IdentSearch(text, invoice_patterns[k]), LAMBDA m :
              IF IsSome(m) /\ IdentAccepted(Strip(Val(m)))
              THEN Some(invoice_patterns[k].prefix \o "-" \o Strip(Val(m)))
              ELSE IdentLoop(text, k + 1))

IdentPart(text) == IdentLoop(text, 1)

(***************************************************************************)
(* generate_new_name_from_content: the date patterns                       *)
(***************************************************************************)
MonthNames ==
    << "January", "February", "March", "April", "May", "June",
       "July", "August", "September", "October", "November", "December" >>

\* Jan(?:uary)?, ..., Dec(?:ember)?: the short form is the first three letters
MonthAbbrev(m) == SubSeq(MonthNames[m], 1, 3)

\* a match object: group(0) and group(1)
Match(g0, g1) == [g0 |-> g0, g1 |-> g1]

\* \b( \d{n1} [-./] \d{1,2} [-./] \d{n3} )\b tried at position p, where the first run
\* has a length in first and the last run a length in last.  A digit run that is followed
\* by a separator or by \b can only be taken whole.
NumericDateAt(text, p, first, last) ==
    With(RunEnd(text, p, Digits), LAMBDA e1 :
    IF ~(BoundaryAt(text, p) /\ (e1 - p) \in first /\ CharAt(text, e1) \in DateSeps) THEN None
    ELSE With(RunEnd(text, e1 + 1, Digits), LAMBDA e2 :
    IF ~((e2 - (e1 + 1)) \in 1..2 /\ CharAt(text, e2) \in DateSeps) THEN None
    ELSE With(RunEnd(text, e2 + 1, Digits), LAMBDA e3 :
    IF (e3 - (e2 + 1)) \in last /\ BoundaryAt(text, e3)
    THEN Some(Match(SubSeq(text, p, e3 - 1), SubSeq(text, p, e3 - 1)))
    ELSE None)))

\* the month name of the third pattern at position p: the long form, else the short one,
\* each only if whitespace follows
MonthNameAt(text, p) ==
    With({m \in 1..12 : LitAt(text, p, MonthAbbrev(m))}, LAMBDA months :
    IF months = {} THEN None
    ELSE With(CHOOSE m \in months : TRUE, LAMBDA m :
         IF /\ LitAt(text, p, MonthNames[m])
            /\ CharAt(text, p + Len(MonthNames[m])) \in Whitespace
         THEN Some(MonthNames[m])
         ELSE IF CharAt(text, p + 3) \in Whitespace THEN Some(MonthAbbrev(m))
         ELSE None))

\* \s+\d{1,2},\s+\d{4}\b after the month name that ends before position q
DayYearAt(text, p, q, name) ==
    With(RunEnd(text, q, Whitespace), LAMBDA w1 :
    With(RunEnd(text, w1, Digits), LAMBDA d1 :
    IF ~(w1 > q /\ (d1 - w1) \in 1..2 /\ CharAt(text, d1) = ",") THEN None
    ELSE With(RunEnd(text, d1 + 1, Whitespace), LAMBDA w2 :
         With(RunEnd(text, w2, Digits), LAMBDA y1 :
         IF w2 > d1 + 1 /\ y1 - w2 = 4 /\ BoundaryAt(text, y1)
         THEN Some(Match(SubSeq(text, p, y1 - 1), name))
         ELSE None))))

\* \b(Jan(?:uary)?|...|Dec(?:ember)?)\s+\d{1,2},\s+\d{4}\b tried at position p
MonthDateAt(text, p) ==
    IF ~BoundaryAt(text, p) THEN None
    ELSE With(MonthNameAt(text, p), LAMBDA name :
              IF IsSome(name) THEN DayYearAt(text, p, p + Len(Val(name)), Val(name))
              ELSE None)

\* date_patterns[k] tried at position p
DateAt(text, p, k) ==
    IF k = 1 THEN NumericDateAt(text, p, {4}, 1..2)
    ELSE IF k = 2 THEN NumericDateAt(text, p, 1..2, 2..4)
    ELSE MonthDateAt(text, p)

\* re.search(date_patterns[k], text_content): the leftmost match, or None
DateSearch(text, k) ==
    With({p \in 1..Len(text) : IsSome(DateAt(text, p, k))}, LAMBDA hits :
         IF hits = {} THEN None
         ELSE DateAt(text, CHOOSE p \in hits : \A q \in hits : p <= q, k))

IsLeap(y) == (y % 4 = 0 /\ y % 100 # 0) \/ y % 400 = 0

DaysInMonth(y, m) ==
    IF m = 2 THEN (IF IsLeap(y) THEN 29 ELSE 28)
    ELSE IF m \in {4, 6, 9, 11} THEN 30
    ELSE 31

\* the fields of a strptime directive: %Y is four digits, %m is 1..12 and %d is 1..31
\* written with one or two digits
YearField(f) == Len(f) = 4 /\ AllDigits(f)

SmallField(f, max) == Len(f) \in 1..2 /\ AllDigits(f) /\ StrToInt(f) \in 1..max

\* datetime(y, m, d), or None where it raises ValueError
MakeDate(y, m, d) ==
    IF y >= 1 /\ d <= DaysInMonth(y, m) THEN Some([y |-> y, m |-> m, d |-> d]) ELSE None

\* the three fields of a dashed date in the order of fmt, as a date or None
DashedFields(f1, f2, f3, fmt) ==
    IF fmt = "%Y-%m-%d"
    THEN IF YearField(f1) /\ SmallField(f2, 12) /\ SmallField(f3, 31)
         THEN MakeDate(StrToInt(f1), StrToInt(f2), StrToInt(f3)) ELSE None
    ELSE IF fmt = "%m-%d-%Y"
    THEN IF SmallField(f1, 12) /\ SmallField(f2, 31) /\ YearField(f3)
         THEN MakeDate(StrToInt(f3), StrToInt(f1), StrToInt(f2)) ELSE None
    ELSE IF SmallField(f1, 31) /\ SmallField(f2, 12) /\ YearField(f3)
         THEN MakeDate(StrToInt(f3), StrToInt(f2), StrToInt(f1)) ELSE None

\* datetime.strptime(s, fmt) for fmt one of '%Y-%m-%d', '%m-%d-%Y', '%d-%m-%Y':
\* the date, or None where it raises ValueError
StrptimeDashed(s, fmt) ==
    With({i \in 1..Len(s) : Ch(s, i) = "-"}, LAMBDA dashes :
    IF Cardinality(dashes) # 2 THEN None
    ELSE With(CHOOSE i \in dashes : \A j \in dashes : i <= j, LAMBDA a :
         With(CHOOSE i \in dashes : \A j \in dashes : j <= i, LAMBDA b :
              DashedFields(SubSeq(s, 1, a - 1), SubSeq(s, a + 1, b - 1),
                           SubSeq(s, b + 1, Len(s)), fmt))))

\* \s+ %d , \s+ %Y after the month name m that ends before position n
StrptimeDayYear(s, m, n) ==
    With(RunEnd(s, n, Whitespace), LAMBDA w1 :
    With(RunEnd(s, w1, Digits), LAMBDA d1 :
    IF ~(w1 > n /\ SmallField(SubSeq(s, w1, d1 - 1), 31) /\ CharAt(s, d1) = ",") THEN None
    ELSE With(RunEnd(s, d1 + 1, Whitespace), LAMBDA w2 :
         IF w2 > d1 + 1 /\ YearField(SubSeq(s, w2, Len(s)))
         THEN MakeDate(StrToInt(SubSeq(s, w2, Len(s))), m, StrToInt(SubSeq(s, w1, d1 - 1)))
         ELSE None)))

\* datetime.strptime(s, '%B %d, %Y'): %B is a full month name in any case
StrptimeMonthName(s) ==
    With({m \in 1..12 : /\ Len(s) >= Len(MonthNames[m])
                        /\ Lower(SubSeq(s, 1, Len(MonthNames[m]))) = Lower(MonthNames[m])},
         LAMBDA months :
             IF months = {} THEN None
             ELSE With(CHOOSE m \in months : TRUE, LAMBDA m :
                       StrptimeDayYear(s, m, Len(MonthNames[m]) + 1)))

Pad2(n) == IF n < 10 THEN "0" \o IntToStr(n) ELSE IntToStr(n)

\* dt_obj.strftime('%Y-%m-%d')
Strftime(dt) == IntToStr(dt.y) \o "-" \o Pad2(dt.m) \o "-" \o Pad2(dt.d)

HasChar(s, c) == \E i \in 1..Len(s) : Ch(s, i) = c

\* the result of the try block: raised tells whether it ended in an exception, and dt is
\* dt_obj (None where the else branch sets it to None)
Tried(dt) == [raised |-> ~IsSome(dt), dt |-> dt]

\* try: strptime('%m-%d-%Y') except ValueError: strptime('%d-%m-%Y')
MonthFirstThenDayFirst(g1) ==
    With(StrptimeDashed(g1, "%m-%d-%Y"), LAMBDA md :
         IF IsSome(md) THEN Tried(md) ELSE Tried(StrptimeDashed(g1, "%d-%m-%Y")))

\* the body of the try block
Normalise(m) ==
    IF HasChar(m.g1, "-") \/ HasChar(m.g1, ".")
    THEN IF Len(FirstField(m.g1, "-")) = 4
         THEN Tried(StrptimeDashed(m.g1, "%Y-%m-%d"))
         ELSE MonthFirstThenDayFirst(m.g1)
    ELSE IF HasChar(m.g0, ",")
    THEN Tried(StrptimeMonthName(m.g0))
    ELSE [raised |-> FALSE, dt |-> None]

\* match.group(0).replace('/', '-').replace('.', '-')
RawDate(m) == ReplaceChar(ReplaceChar(m.g0, "/", "-"), ".", "-")

\* the date a match yields, given the result n of the try block: normalised, or the raw
\* match where normalising raised or gave no date object
DateGiven(m, n) == IF ~n.raised /\ IsSome(n.dt) THEN Strftime(Val(n.dt)) ELSE RawDate(m)

DateOfMatch(m) == DateGiven(m, Normalise(m))

\* whether the loop ends after a match whose try block gave n: the break stands inside
\* the try block, so the except handler does not reach it
BreaksAfter(n) == ~n.raised

\* the loop over date_patterns from pattern k on, found being found_date so far
RECURSIVE DateLoop(_, _, _)
DateLoop(text, k, found) ==
    IF k > 3 THEN found
    ELSE With(DateSearch(text, k), LAMBDA m :
         IF ~IsSome(m) THEN DateLoop(text, k + 1, found)
         ELSE With(Normalise(Val(m)), LAMBDA n :
              IF BreaksAfter(n) THEN Some(DateGiven(Val(m), n))
              ELSE DateLoop(text, k + 1, Some(DateGiven(Val(m), n)))))

\* found_date after the loop
FoundDate(text) == DateLoop(text, 1, None)

(***************************************************************************)
(* generate_new_name_from_content                                          *)
(***************************************************************************)
\* the fallback takes this many characters of the first line
FirstLineChars == 50

\* first_line[:50].strip()
GenericTitle(first_line) ==
    Strip(SubSeq(first_line, 1,
                 IF Len(first_line) < FirstLineChars THEN Len(first_line) ELSE FirstLineChars))

\* the fallback: [generic_title], [] or None (return None)
FallbackParts(text) ==
    With(FirstField(Strip(text), "\n"), LAMBDA first_line :
         IF first_line = "" THEN None
         ELSE With(GenericTitle(first_line), LAMBDA generic_title :
                   IF generic_title # "" THEN Some(<<generic_title>>) ELSE Some(<<>>)))

\* "_".join(parts)
RECURSIVE JoinUnderscore(_)
JoinUnderscore(parts) ==
    IF parts = <<>> THEN ""
    ELSE IF Len(parts) = 1 THEN parts[1]
    ELSE parts[1] \o "_" \o JoinUnderscore(Tail(parts))

\* a list of one element for a part that was found, else the empty list
ListOf(part) == IF IsSome(part) THEN <<Val(part)>> ELSE <<>>

\* the end of the function, from the fallback on, given new_name_parts so far
NameFromParts(text_content, found) ==
    With(IF found # <<>> THEN Some(found) ELSE FallbackParts(text_content), LAMBDA parts :
         IF ~IsSome(parts) THEN None
         ELSE Some(sanitize_filename(ReplaceChar(JoinUnderscore(Val(parts)), " ", "_"))))

generate_new_name_from_content(text_content) ==
    IF text_content = "" THEN None
    ELSE NameFromParts(text_content,
                       ListOf(IdentPart(text_content)) \o ListOf(FoundDate(text_content)))

(***************************************************************************)
(* Idle values of the variables a specification does not use               *)
(***************************************************************************)
RunIdle ==
    /\ script = "none"
    /\ client = FALSE
    /\ dirs = {}
    /\ fs = <<>>
    /\ pc = "idle"
    /\ dry_run = FALSE
    /\ listing = <<>>
    /\ idx = 1
    /\ pdf_files_found = 0
    /\ renamed_count = 0
    /\ skipped_count = 0
    /\ moved_count = 0
    /\ config_errors = 0
    /\ log = <<>>
    /\ moves = <<>>
    /\ preview = None
    /\ fs_start = <<>>

SanIdle ==
    /\ sp_input = ""
    /\ sp_once = ""
    /\ sp_twice = ""
    /\ sp_pc = "idle"

GenIdle ==
    /\ gen_text = ""
    /\ gen_date = None
    /\ gen_name = None
    /\ gen_pc = "idle"

(***************************************************************************)
(* The file system and the documents                                       *)
(***************************************************************************)
\* the folder the user names, and another directory
Folder == "in"

Elsewhere == "out"

\* a document: whether the PDF library can read it, the text it yields, and what the
\* completion service answers for that text (None: the request raises)
Doc(readable, text, reply) == [readable |-> readable, text |-> text, reply |-> reply]

NamesIn(files, dir) == {p[2] : p \in {q \in DOMAIN files : q[1] = dir}}

\* os.path.exists(os.path.join(dir, name))
Exists(files, dir, name) == <<dir, name>> \in DOMAIN files

\* os.rename(src, dst): dst is replaced if it is there
Renamed(files, src, dst) ==
    [p \in (DOMAIN files \ {src}) \cup {dst} |-> IF p = dst THEN files[src] ELSE files[p]]

\* a file written at dst with the content doc
Copied(files, dst, doc) ==
    [p \in DOMAIN files \cup {dst} |-> IF p = dst THEN doc ELSE files[p]]

\* what a copy holds that broke off before its end: nothing the PDF library can read
TruncatedDoc == Doc(FALSE, "", None)

\* how shutil.move(src, dst) can end.  It tries os.rename and, where that raises OSError,
\* copies the file to dst and then unlinks src.  moved: the rename, or the copy and the
\* unlink, succeeded.  failed: it raised before anything was written.  failed_copy: the
\* copy was written and a later step (copying the metadata, the unlink) raised.
\* failed_truncated: the copy raised after it had created dst.
MoveOutcomes == {"moved", "failed", "failed_copy", "failed_truncated"}

\* the files after shutil.move(src, dst) ended with outcome
Moved(files, src, dst, outcome) ==
    IF outcome = "moved" THEN Renamed(files, src, dst)
    ELSE IF outcome = "failed_copy" THEN Copied(files, dst, files[src])
    ELSE IF outcome = "failed_truncated" THEN Copied(files, dst, TruncatedDoc)
    ELSE files

\* the orders in which os.listdir may return the names
Listings(names) ==
    {l \in [1..Cardinality(names) -> names] : \A i, j \in 1..Cardinality(names) : l[i] = l[j] => i = j}

\* filename.lower().endswith('.pdf')
IsPdf(filename) == EndsWith(Lower(filename), ".pdf")

\* os.path.splitext(filename): the extension starts at the last dot, unless only dots
\* stand before it
SplitExt(filename) ==
    LET dots == {i \in 1..Len(filename) : Ch(filename, i) = "."}
    IN  IF dots = {} THEN <<filename, "">>
        ELSE LET d == CHOOSE i \in dots : \A j \in dots : j <= i
             IN  IF \E k \in 1..(d - 1) : Ch(filename, k) # "."
                 THEN <<SubSeq(filename, 1, d - 1), SubSeq(filename, d, Len(filename))>>
                 ELSE <<filename, "">>

(***************************************************************************)
(* Collision resolution                                                    *)
(***************************************************************************)
\* the extension the rename loops give the new name
NewExtension == ".pdf"

\* f"{base}.pdf", then f"{base}_{counter}.pdf" for counter = 1, 2, ...
NumberedName(base, n) ==
    IF n = 0 THEN base \o NewExtension ELSE base \o "_" \o IntToStr(n) \o NewExtension

\* the condition of the while loop of the rename loops
BlockedIgnoringFiles(names, old_name, new_name) == FALSE

Blocked(names, old_name, new_name) == new_name \in names /\ new_name # old_name

\* the while loop: the first numbered name that is not blocked.  One of the first
\* Cardinality(names) + 1 names is free.
ResolveName(names, old_name, base) ==
    LET n == CHOOSE k \in 0..Cardinality(names) :
                 /\ ~Blocked(names, old_name, NumberedName(base, k))
                 /\ \A j \in 0..(k - 1) : Blocked(names, old_name, NumberedName(base, j))
    IN  NumberedName(base, n)

\* move_pdfs_to_folder: filename, then f"{name}_{counter}{ext}"
MovedName(filename, n) ==
    IF n = 0 THEN filename
    ELSE SplitExt(filename)[1] \o "_" \o IntToStr(n) \o SplitExt(filename)[2]

\* the while loop of move_pdfs_to_folder
ResolveMove(names, filename) ==
    LET n == CHOOSE k \in 0..Cardinality(names) :
                 /\ MovedName(filename, k) \notin names
                 /\ \A j \in 0..(k - 1) : MovedName(filename, j) \in names
    IN  MovedName(filename, n)

(***************************************************************************)
(* Name derivation of the two scripts                                      *)
(***************************************************************************)
\* extract_text_from_pdf: the text, or None after an error
extract_text_from_pdf(doc) == IF doc.readable THEN Some(doc.text) ELSE None

\* the class [A-Za-z0-9 _]
ValidNameChars == Letters \cup Digits \cup {" ", "_"}

\* is_valid_filename
is_valid_filename(name) ==
    name # "" /\ \A i \in 1..Len(name) : Ch(name, i) \in ValidNameChars

\* get_title_via_chatgpt: the title or None, and whether the missing-key error was printed
get_title_via_chatgpt(has_client, doc) ==
    IF ~has_client THEN [title |-> None, config_error |-> TRUE]
    ELSE IF ~IsSome(doc.reply) THEN [title |-> None, config_error |-> FALSE]
    ELSE [title |-> Some(sanitize_filename(Strip(Val(doc.reply)))), config_error |-> FALSE]

\* whether the run touches the file system
PerformsRenameAlways(dry) == TRUE

PerformsRename(dry) == ~dry

\* skipped_count after a rename that raised
FailedRenameUncounted(skipped) == skipped

FailedRenameSkips(skipped) == skipped + 1

\* one entry of the report
Entry(name, outcome, base, target, existed) ==
    [name |-> name, outcome |-> outcome, base |-> base, target |-> target, existed |-> existed]

\* the report entry for a file whose new path is target
PlanEntry(names, filename, base, target, dry, fails) ==
    IF target = filename THEN Entry(filename, "already_named", base, target, FALSE)
    ELSE IF ~PerformsRename(dry) THEN Entry(filename, "would_rename", base, target, target \in names)
    ELSE IF fails THEN Entry(filename, "rename_failed", base, target, target \in names)
    ELSE Entry(filename, "renamed", base, target, target \in names)

\* the part of the loop body both scripts share, from the collision loop on: the entry
\* of the report.  fails tells whether os.rename raises.
PlanOutcome(names, filename, base, dry, fails) ==
    PlanEntry(names, filename, base, ResolveName(names, filename, base), dry, fails)

\* rename_pdf_files_in_folder: the loop body for one PDF, after the text was extracted
PatternOutcomeOfText(files, filename, text_content, dry, fails) ==
    IF ~IsSome(text_content) THEN Entry(filename, "no_text", "", "", FALSE)
    ELSE With(generate_new_name_from_content(Val(text_content)), LAMBDA new_name_base :
              IF ~IsSome(new_name_base) THEN Entry(filename, "no_name", "", "", FALSE)
              ELSE PlanOutcome(NamesIn(files, Folder), filename, Val(new_name_base), dry, fails))

\* rename_pdf_files_in_folder: the loop body for one PDF
PatternOutcome(files, filename, dry, fails) ==
    PatternOutcomeOfText(files, filename, extract_text_from_pdf(files[<<Folder, filename>>]),
                         dry, fails)

\* rename_pdfs_in_folder: the loop body for one PDF, after get_title_via_chatgpt returned
ServiceOutcomeOfTitle(files, filename, title, dry, fails) ==
    IF ~IsSome(title) \/ Val(title) = "" THEN Entry(filename, "no_name", "", "", FALSE)
    ELSE IF ~is_valid_filename(Val(title)) THEN Entry(filename, "invalid_name", Val(title), "", FALSE)
    ELSE PlanOutcome(NamesIn(files, Folder), filename, Val(title), dry, fails)

\* whether the loop body for this PDF calls get_title_via_chatgpt
CallsService(files, filename) ==
    extract_text_from_pdf(files[<<Folder, filename>>]) \notin {None, Some("")}

\* rename_pdfs_in_folder: the loop body for one PDF
ServiceOutcome(files, filename, has_client, dry, fails) ==
    IF ~CallsService(files, filename) THEN Entry(filename, "no_text", "", "", FALSE)
    ELSE With(get_title_via_chatgpt(has_client, files[<<Folder, filename>>]).title, LAMBDA title :
              ServiceOutcomeOfTitle(files, filename, title, dry, fails))

(***************************************************************************)
(* The scripts: __main__, the rename loops and move_pdfs_to_folder         *)
(***************************************************************************)
MaxFiles == 2

MaxDestFiles == 1

Scripts == {"rename_pdfs", "renamepdf"}

NameUniverse == {"a.pdf", "x.PDF", "Report.pdf", "Report_1.pdf", "notes.txt"}

DestUniverse == {"a.pdf", "Report.pdf"}

\* what is stored under a name no loop reads
OtherDoc == Doc(FALSE, "", None)

\* the documents of the pattern script: unreadable, without text, and three texts
PatternDocs ==
    { Doc(FALSE, "", None), Doc(TRUE, "", None), Doc(TRUE, "Report", None),
      Doc(TRUE, "___", None), Doc(TRUE, "Invoice #A1234 dated 2023-01-02", None) }

\* the documents of the service script: unreadable, without text, one for which the
\* request raises, and three answers of the service
ServiceDocs ==
    { Doc(FALSE, "", None), Doc(TRUE, "", None), Doc(TRUE, "text", None),
      Doc(TRUE, "text", Some("Report ")), Doc(TRUE, "text", Some("Q&A")),
      Doc(TRUE, "text", Some("/")) }

DocsOf(sc) == IF sc = "rename_pdfs" THEN PatternDocs ELSE ServiceDocs

SmallSubsets(S, n) == {T \in SUBSET S : Cardinality(T) <= n}

\* the file systems a run can start from
InitialFiles(sc, ds) ==
    IF Folder \notin ds THEN {<<>>}
    ELSE UNION { UNION { {
            [p \in {<<Folder, n>> : n \in S} \cup {<<Elsewhere, n>> : n \in O} |->
                IF p[1] = Folder THEN d[p[2]] ELSE OtherDoc]
            : d \in {e \in [S -> DocsOf(sc) \cup {OtherDoc}] :
                        \A n \in S : IF IsPdf(n) THEN e[n] \in DocsOf(sc) ELSE e[n] = OtherDoc} }
          : O \in IF Elsewhere \in ds THEN SmallSubsets(DestUniverse, MaxDestFiles) ELSE {{}} }
        : S \in SmallSubsets(NameUniverse, MaxFiles) }

Init ==
    /\ script \in Scripts
    /\ client \in (IF script = "renamepdf" THEN BOOLEAN ELSE {FALSE})
    /\ dirs \in (IF script = "renamepdf" THEN {{}, {Folder}, {Folder, Elsewhere}}
                 ELSE {{}, {Folder}})
    /\ fs \in InitialFiles(script, dirs)
    /\ pc = "main"
    /\ dry_run = FALSE
    /\ listing = <<>>
    /\ idx = 1
    /\ pdf_files_found = 0
    /\ renamed_count = 0
    /\ skipped_count = 0
    /\ moved_count = 0
    /\ config_errors = 0
    /\ log = <<>>
    /\ moves = <<>>
    /\ preview = None
    /\ fs_start = fs
    /\ GenIdle
    /\ SanIdle

\* where __main__ goes on after a run returns
AfterRun(dry) ==
    IF dry THEN "ask" ELSE IF script = "renamepdf" THEN "move_ask" ELSE "end"

\* the call of rename_pdf_files_in_folder / rename_pdfs_in_folder, up to the loop
StartRun(dry) ==
    /\ dry_run' = dry
    /\ pdf_files_found' = 0
    /\ renamed_count' = 0
    /\ skipped_count' = 0
    /\ config_errors' = 0
    /\ log' = <<>>
    /\ idx' = 1
    /\ fs_start' = fs
    /\ IF Folder \notin dirs
       THEN listing' = <<>> /\ pc' = AfterRun(dry)
       ELSE listing' \in Listings(NamesIn(fs, Folder)) /\ pc' = "loop"

\* __main__: the dry-run prompt, then the first run
MainStart ==
    /\ pc = "main"
    /\ \E dry \in BOOLEAN : StartRun(dry)
    /\ preview' = None
    /\ UNCHANGED <<script, client, dirs, fs, moved_count, moves, genVars, sanVars>>

\* the counters, the files and the report after the loop body ended with entry e
ApplyEntry(e) ==
    /\ pdf_files_found' = pdf_files_found + 1
    /\ renamed_count' = IF e.outcome \in {"would_rename", "renamed"}
                        THEN renamed_count + 1 ELSE renamed_count
    /\ skipped_count' = IF e.outcome = "rename_failed" THEN FailedRenameSkips(skipped_count)
                        ELSE IF e.outcome \in {"no_text", "no_name", "invalid_name", "already_named"}
                        THEN skipped_count + 1
                        ELSE skipped_count
    /\ fs' = IF e.outcome = "renamed"
             THEN Renamed(fs, <<Folder, e.name>>, <<Folder, e.target>>) ELSE fs
    /\ log' = Append(log, e)

\* rename_pdf_files_in_folder: one pass of the for loop
ProcessFilePattern ==
    /\ pc = "loop"
    /\ script = "rename_pdfs"
    /\ idx <= Len(listing)
    /\ idx' = idx + 1
    /\ IF ~IsPdf(listing[idx])
       THEN UNCHANGED <<pdf_files_found, renamed_count, skipped_count, fs, log>>
       ELSE \E fails \in BOOLEAN :
               \E e \in {PatternOutcome(fs, listing[idx], dry_run, fails)} : ApplyEntry(e)
    /\ UNCHANGED <<script, client, dirs, pc, dry_run, listing, moved_count, config_errors,
                   moves, preview, fs_start, genVars, sanVars>>

\* rename_pdfs_in_folder: one pass of the for loop
ProcessFileService ==
    /\ pc = "loop"
    /\ script = "renamepdf"
    /\ idx <= Len(listing)
    /\ idx' = idx + 1
    /\ IF ~IsPdf(listing[idx])
       THEN UNCHANGED <<pdf_files_found, renamed_count, skipped_count, fs, log, config_errors>>
       ELSE /\ \E fails \in BOOLEAN :
                  \E e \in {ServiceOutcome(fs, listing[idx], client, dry_run, fails)} : ApplyEntry(e)
            /\ config_errors' =
                  IF /\ CallsService(fs, listing[idx])
                     /\ get_title_via_chatgpt(client, fs[<<Folder, listing[idx]>>]).config_error
                  THEN config_errors + 1 ELSE config_errors
    /\ UNCHANGED <<script, client, dirs, pc, dry_run, listing, moved_count,
                   moves, preview, fs_start, genVars, sanVars>>

\* the end of the loop: the summary is printed and the run returns to __main__
Summary ==
    /\ pc = "loop"
    /\ idx > Len(listing)
    /\ pc' = AfterRun(dry_run)
    /\ UNCHANGED <<script, client, dirs, fs, dry_run, listing, idx, pdf_files_found,
                   renamed_count, skipped_count, moved_count, config_errors, log, moves,
                   preview, fs_start, genVars, sanVars>>

\* __main__ after the dry run: 'y' starts the live run
Proceed ==
    /\ pc = "ask"
    /\ preview' = Some([listing |-> listing, log |-> log, renamed |-> renamed_count,
                        skipped |-> skipped_count, found |-> pdf_files_found])
    /\ StartRun(FALSE)
    /\ UNCHANGED <<script, client, dirs, fs, moved_count, moves, genVars, sanVars>>

\* __main__ after the dry run: any other answer cancels
Cancel ==
    /\ pc = "ask"
    /\ pc' = "end"
    /\ UNCHANGED <<script, client, dirs, fs, dry_run, listing, idx, pdf_files_found,
                   renamed_count, skipped_count, moved_count, config_errors, log, moves,
                   preview, fs_start, genVars, sanVars>>

\* renamepdf.__main__ after the live run: the move is declined
MoveDecline ==
    /\ pc = "move_ask"
    /\ pc' = "end"
    /\ UNCHANGED <<script, client, dirs, fs, dry_run, listing, idx, pdf_files_found,
                   renamed_count, skipped_count, moved_count, config_errors, log, moves,
                   preview, fs_start, genVars, sanVars>>

\* the destination directory the user names
Destinations == {Folder, Elsewhere}

\* move_pdfs_to_folder up to the loop: the destination is created if absent (a failure
\* returns), and os.listdir raises if the source folder is missing.  The locals of the
\* rename run are gone by now.
MoveStart ==
    /\ pc = "move_ask"
    /\ \E dest \in Destinations, created \in BOOLEAN :
          IF dest \notin dirs /\ ~created
          THEN /\ pc' = "end"
               /\ listing' = <<>>
               /\ UNCHANGED dirs
          ELSE /\ dirs' = dirs \cup {dest}
               /\ IF Folder \notin dirs'
                  THEN listing' = <<>> /\ pc' = "crashed"
                  ELSE listing' \in {[dest |-> dest, names |-> l] : l \in Listings(NamesIn(fs, Folder))}
                       /\ pc' = "moving"
    /\ moved_count' = 0
    /\ idx' = 1
    /\ fs_start' = fs
    /\ moves' = <<>>
    /\ dry_run' = FALSE
    /\ pdf_files_found' = 0
    /\ renamed_count' = 0
    /\ skipped_count' = 0
    /\ config_errors' = 0
    /\ log' = <<>>
    /\ preview' = None
    /\ UNCHANGED <<script, client, fs, genVars, sanVars>>

\* move_pdfs_to_folder: one pass of the for loop; outcome tells how shutil.move ends, and
\* every outcome but "moved" raises
MoveFile ==
    /\ pc = "moving"
    /\ idx <= Len(listing.names)
    /\ idx' = idx + 1
    /\ IF ~IsPdf(listing.names[idx]) THEN UNCHANGED <<fs, moved_count, moves>>
       ELSE \E outcome \in MoveOutcomes :
            \E target \in {ResolveMove(NamesIn(fs, listing.dest), listing.names[idx])} :
               /\ moves' = Append(moves, [name |-> listing.names[idx], target |-> target,
                                          ok |-> outcome = "moved",
                                          left |-> outcome \in {"failed_copy", "failed_truncated"},
                                          existed |-> Exists(fs, listing.dest, target)])
               /\ fs' = Moved(fs, <<Folder, listing.names[idx]>>, <<listing.dest, target>>, outcome)
               /\ moved_count' = IF outcome = "moved" THEN moved_count + 1 ELSE moved_count
    /\ UNCHANGED <<script, client, dirs, pc, dry_run, listing, pdf_files_found, renamed_count,
                   skipped_count, config_errors, log, preview, fs_start, genVars, sanVars>>

\* move_pdfs_to_folder: the count is printed
MoveDone ==
    /\ pc = "moving"
    /\ idx > Len(listing.names)
    /\ pc' = "end"
    /\ UNCHANGED <<script, client, dirs, fs, dry_run, listing, idx, pdf_files_found,
                   renamed_count, skipped_count, moved_count, config_errors, log, moves,
                   preview, fs_start, genVars, sanVars>>

Next ==
    \/ MainStart
    \/ ProcessFilePattern
    \/ ProcessFileService
    \/ Summary
    \/ Proceed
    \/ Cancel
    \/ MoveDecline
    \/ MoveStart
    \/ MoveFile
    \/ MoveDone

Spec == Init /\ [][Next]_vars

(***************************************************************************)
(* Properties of the scripts                                               *)
(***************************************************************************)
\* the outcomes of the loop body that reached the collision loop
PlannedOutcomes == {"already_named", "would_rename", "rename_failed", "renamed"}

\* the outcomes counted by renamed_count, and those counted by skipped_count
RenamedOutcomes == {"would_rename", "renamed"}

SkippedOutcomes == {"no_text", "no_name", "invalid_name", "already_named", "rename_failed"}

\* the documents stored in a file system, whatever their names
Documents(files) == {files[p] : p \in DOMAIN files}

\* B.pdf, B_1.pdf, B_2.pdf, ...: B.pdf or B, an underscore, a number and .pdf
InSeries(name, base) ==
    \/ name = base \o ".pdf"
    \/ /\ LitAt(name, 1, base \o "_")
       /\ EndsWith(name, ".pdf")
       /\ Len(name) > Len(base) + 5
       /\ AllDigits(SubSeq(name, Len(base) + 2, Len(name) - 4))

\* how many files hold the document d
DocCount(files, d) == Cardinality({p \in DOMAIN files : files[p] = d})

\* how many moves raised and left a copy at the destination
CopiesLeft == Cardinality({i \in 1..Len(moves) : moves[i].left})

\* no rename of a live run and no move is issued onto a path that exists, and the files
\* a live run renames get distinct names B.pdf, B_1.pdf, ... of their base B
DestinationsFree ==
    /\ \A i \in 1..Len(log) : log[i].outcome = "renamed" => ~log[i].existed
    /\ \A i \in 1..Len(moves) : ~moves[i].existed
    /\ \A i \in 1..Len(log) :
          log[i].outcome = "renamed" =>
             /\ InSeries(log[i].target, log[i].base)
             /\ <<Folder, log[i].target>> \in DOMAIN fs
             /\ \A j \in 1..Len(log) :
                   (log[j].outcome = "renamed" /\ log[j].target = log[i].target) => i = j

\* C1 as stated: no rename or move is issued onto a path that exists, the files that
\* share a base get distinct names, and the number of files is preserved.
C1_FileCountPreserved ==
    /\ DestinationsFree
    /\ Cardinality(DOMAIN fs) = Cardinality(DOMAIN fs_start)

\* C1, amended: no rename or move is issued onto a path that exists and the files that
\* share a base get distinct names, so no file is overwritten or lost: every document
\* is held by at least as many files as before.  The number of files never falls; it
\* grows by one for every move that raised after it had written its copy.
C1_NoFileOverwritten ==
    /\ DestinationsFree
    /\ Cardinality(DOMAIN fs) = Cardinality(DOMAIN fs_start) + CopiesLeft
    /\ \A d \in Documents(fs_start) : DocCount(fs, d) >= DocCount(fs_start, d)

\* a live run has renamed two files with the same base B to B.pdf and B_1.pdf
C1_TwoFilesShareBase ==
    /\ pc \in {"move_ask", "end"}
    /\ \E i, j \in 1..Len(log) :
          /\ log[i].outcome = "renamed" /\ log[j].outcome = "renamed"
          /\ log[i].base = log[j].base
          /\ log[i].target = log[i].base \o ".pdf"
          /\ log[j].target = log[j].base \o "_1.pdf"

\* C2: a dry run leaves the file system as it was: the same names with the same documents.
C2_DryRunChangesNothing ==
    (dry_run /\ pc \in {"loop", "ask"}) => fs = fs_start

\* a dry run has ended with two rename plans
C2_DryRunWithTwoPlans ==
    /\ dry_run
    /\ pc = "ask"
    /\ renamed_count >= 2

\* how many entries of a report have an outcome in outcomes
CountOutcomes(report, outcomes) ==
    Cardinality({i \in 1..Len(report) : report[i].outcome \in outcomes})

\* the names of the entries of a report, in order
ReportNames(report) == [i \in 1..Len(report) |-> report[i].name]

\* C5: the loop visits every listed PDF once, in order, whatever happens to the files
\* before it; each PDF gets one outcome, counted once; and the loop ends, with
\* pdf_files_found = renamed_count + skipped_count.
C5_EveryPdfCountedOnce ==
    pc \in {"loop", "ask", "move_ask"} =>
        /\ idx \in 1..(Len(listing) + 1)
        /\ pc # "loop" => idx = Len(listing) + 1
        /\ ReportNames(log) = SelectSeq(SubSeq(listing, 1, idx - 1), IsPdf)
        /\ \A i \in 1..Len(log) : log[i].outcome \in RenamedOutcomes \cup SkippedOutcomes
        /\ pdf_files_found = Len(log)
        /\ renamed_count = CountOutcomes(log, RenamedOutcomes)
        /\ skipped_count = CountOutcomes(log, SkippedOutcomes)
        /\ pdf_files_found = renamed_count + skipped_count

\* a live run has ended in which a rename raised and a later file was renamed
C5_RenamedAfterFailure ==
    /\ pc = "move_ask"
    /\ \E i, j \in 1..Len(log) :
          i < j /\ log[i].outcome = "rename_failed" /\ log[j].outcome = "renamed"

\* C6: without a client the missing-key error is reported once for the whole run, not
\* once for every file.
C6_ConfigErrorReportedOnce ==
    config_errors <= 1

\* C7: the new path of a file keeps the file's extension, character for character.
C7_ExtensionKept ==
    \A i \in 1..Len(log) :
        log[i].outcome \in PlannedOutcomes =>
            SubSeq(log[i].target, Len(log[i].target) - 3, Len(log[i].target))
                = SubSeq(log[i].name, Len(log[i].name) - 3, Len(log[i].name))

\* C9: in the pattern script a file that reaches the collision loop has a base name
\* that is not empty.
C9_BaseNameNotEmpty ==
    script = "rename_pdfs" =>
        \A i \in 1..Len(log) : log[i].outcome \in PlannedOutcomes => log[i].base # ""

\* C10: a live run that follows a dry run on the same listing, and in which no rename
\* raises, gives every file the target the dry run reported and ends with the dry run's
\* counts; the dry run reported no target twice.
C10_DryRunIsFaithfulPreview ==
    (/\ IsSome(preview)
     /\ pc \in {"move_ask", "end"}
     /\ Val(preview).listing = listing
     /\ \A i \in 1..Len(log) : log[i].outcome # "rename_failed") =>
        /\ Len(Val(preview).log) = Len(log)
        /\ \A i \in 1..Len(log) :
              /\ (Val(preview).log[i].outcome = "would_rename") = (log[i].outcome = "renamed")
              /\ Val(preview).log[i].target = log[i].target
        /\ Val(preview).renamed = renamed_count
        /\ Val(preview).skipped = skipped_count
        /\ \A i, j \in 1..Len(log) :
              (/\ Val(preview).log[i].outcome = "would_rename"
               /\ Val(preview).log[j].outcome = "would_rename"
               /\ Val(preview).log[i].target = Val(preview).log[j].target) => i = j

(***************************************************************************)
(* Driver of generate_new_name_from_content over bounded texts: one or two *)
(* words separated by a space.  Two of the words hold characters beyond    *)
(* ASCII: U+000B as white space and U+00E9 as a word character.            *)
(***************************************************************************)
MaxWords == 2

GenWords ==
    { "2023-11-05", "2023-13-45", "2023.11.05", "2023/11/05", "01/02/2023",
      "13-01-2023", "1.2.23", "March 3, 2024", "Mar 3, 2024", "Invoice #A1234",
      "Report", "___", "March3, 2024", "é2023-11-05" }

RECURSIVE TextsUpTo(_)
TextsUpTo(n) ==
    IF n = 0 THEN {""}
    ELSE LET shorter == TextsUpTo(n - 1)
         IN  shorter \cup {IF t = "" THEN w ELSE t \o " " \o w : t \in shorter, w \in GenWords}

GenInit ==
    /\ gen_text \in TextsUpTo(MaxWords)
    /\ gen_date = None
    /\ gen_name = None
    /\ gen_pc = "input"
    /\ SanIdle
    /\ RunIdle

Generate ==
    /\ gen_pc = "input"
    /\ gen_date' = FoundDate(gen_text)
    /\ gen_name' = generate_new_name_from_content(gen_text)
    /\ gen_pc' = "done"
    /\ UNCHANGED <<gen_text, sanVars, runVars>>

GenNext == Generate

SpecGenerate == GenInit /\ [][GenNext]_vars

\* the first date format, in the order of date_patterns, that matches the text
FirstMatchingFormat(text) ==
    CHOOSE k \in 1..3 :
        /\ IsSome(DateSearch(text, k))
        /\ \A j \in 1..(k - 1) : ~IsSome(DateSearch(text, j))

\* C8: the date placed in the name comes from the first date format, in priority
\* order, that matches the text, also when normalising that match raises an error.
C8_DateFromFirstMatchingFormat ==
    (gen_pc = "done" /\ \E k \in 1..3 : IsSome(DateSearch(gen_text, k))) =>
        gen_date = Some(DateOfMatch(Val(DateSearch(gen_text, FirstMatchingFormat(gen_text)))))

(***************************************************************************)
(* Driver of sanitize_filename over bounded inputs: a run of filler        *)
(* characters followed by a short tail over an alphabet that has a plain   *)
(* character, the two trimmed characters and an invalid character.         *)
(***************************************************************************)
MaxTail == 3

SanAlphabet == {"a", "_", " ", "/"}

SanPadLens == {0, MaxNameLen - 2, MaxNameLen - 1, MaxNameLen}

SanInputs == {Repeat("a", n) \o t : n \in SanPadLens, t \in StringsUpTo(SanAlphabet, MaxTail)}

SanInit ==
    /\ sp_input \in SanInputs
    /\ sp_once = ""
    /\ sp_twice = ""
    /\ sp_pc = "input"
    /\ GenIdle
    /\ RunIdle

SanitizeOnce ==
    /\ sp_pc = "input"
    /\ sp_once' = sanitize_filename(sp_input)
    /\ sp_pc' = "once"
    /\ UNCHANGED <<sp_input, sp_twice, genVars, runVars>>

SanitizeTwice ==
    /\ sp_pc = "once"
    /\ sp_twice' = sanitize_filename(sp_once)
    /\ sp_pc' = "twice"
    /\ UNCHANGED <<sp_input, sp_once, genVars, runVars>>

SanNext == SanitizeOnce \/ SanitizeTwice

SpecSanitize == SanInit /\ [][SanNext]_vars

\* C3: every sanitized name has no invalid character, no two consecutive
\* underscores, no leading or trailing space or underscore, and at most 200 characters.
C3_SanitizedNameIsClean ==
    sp_pc \in {"once", "twice"} =>
        /\ \A i \in 1..Len(sp_once) : Ch(sp_once, i) \notin InvalidChars
        /\ \A i \in 1..(Len(sp_once) - 1) : ~(Ch(sp_once, i) = "_" /\ Ch(sp_once, i + 1) = "_")
        /\ sp_once # "" => /\ Ch(sp_once, 1) \notin {" ", "_"}
                           /\ Ch(sp_once, Len(sp_once)) \notin {" ", "_"}
        /\ Len(sp_once) <= MaxNameLen

\* C4: sanitize_filename is idempotent: sanitizing a sanitized name changes nothing.
C4_SanitizeIdempotent ==
    sp_pc = "twice" => sp_twice = sp_once

====
